---- MODULE Spec2Model ----
(***************************************************************************)
(* The BindCraft design loop of no_filtering.py: the outer trajectory      *)
(* loop with its two stop checks, the deduplication against the design     *)
(* directories, and the MPNN sequence-redesign sub-loop with its           *)
(* acceptance cap and final filter.  The persisted state is the four CSV   *)
(* tables and the files below the design path; everything else is the      *)
(* memory of one process, lost when the process dies.                      *)
(***************************************************************************)
EXTENDS Integers, Sequences, FiniteSets, TLC

\* ----------------------------------------------------------------- bounds
MaxSeed == 1          \* seeds drawn from 0..MaxSeed
MaxSeqs == 2          \* mpnn_gen_sequence returns 0..MaxSeqs sequences
MaxCap == 2           \* max_mpnn_sequences drawn from 0..MaxCap
MaxTarget == 2        \* number_of_final_designs drawn from 1..MaxTarget
MaxBudget == 2        \* max_trajectories drawn from 1..MaxBudget
MaxCrashes == 1       \* process deaths followed by a restart

\* ------------------------------------------------------ program constants
BinderLength == 60            \* target_settings["lengths"], one length
PlddtThreshold == 7           \* Initial_filter: plddt > 0.7   (tenths)
DGThreshold == -10            \* Filters: interface_dG < -10
PlddtValues == {5, 8}
DGValues == {-15, -5}

VARIABLES
    \* configuration, read once at start-up
    advanced_settings, target_settings, stop_after_mpnn_generation,
    \* persisted state: tables and files of the design directory
    trajectory_csv, mpnn_csv, final_csv, failure_csv, files,
    \* memory of the running process
    pc, trajectory_n, accepted_designs,
    final_designs_reached, max_trajectories_reached,
    seed, length, design_name, trajectory_exists, trajectory,
    mpnn_sequences, i, mpnn_count, mpnn_passes,
    mpnn_complex_metrics, mpnn_complex_pdb, mpnn_filters_passed,
    mpnn_data, mpnn_final_filters_passed,
    \* observation of the run: collaborator calls, appends in order, deaths
    hallucinated, predicted, relaxed, redesigned, filtered, ledger, crashes,
    \* the failure messages printed to the log
    printed

config == <<advanced_settings, target_settings, stop_after_mpnn_generation>>
tables == <<trajectory_csv, mpnn_csv, final_csv, failure_csv>>
persisted == <<trajectory_csv, mpnn_csv, final_csv, failure_csv, files>>
counters == <<trajectory_n, accepted_designs>>
checks == <<final_designs_reached, max_trajectories_reached>>
sampled == <<seed, length, design_name, trajectory_exists>>
subloop == <<mpnn_sequences, i, mpnn_count, mpnn_passes>>
candidate == <<mpnn_complex_metrics, mpnn_complex_pdb, mpnn_filters_passed,
               mpnn_data, mpnn_final_filters_passed>>
calls == <<hallucinated, predicted, relaxed, redesigned, filtered>>
vars == <<config, persisted, pc, counters, checks, sampled, trajectory,
          subloop, candidate, calls, ledger, crashes, printed>>

\* ------------------------------------------------------------------ names
None == "None"

\* design_name = binder_name + "_l" + str(length) + "_s" + str(seed)
DesignName(len, sd) == <<"binder", "_l", ToString(len), "_s", ToString(sd)>>

\* mpnn_design_name = design_name + "_mpnn_" + str(i)
MpnnDesignName(dn, idx) == dn \o <<"_mpnn_", ToString(idx)>>

\* os.path.join(design_paths[dir], name + suffix)
Path(dir, name, suffix) == <<dir, name \o <<suffix>>>>

trajectory_dirs == <<"Trajectory", "Trajectory/Relaxed",
                     "Trajectory/LowConfidence", "Trajectory/Clashing">>

Range(s) == {s[k] : k \in DOMAIN s}

\* the look-up as it would be with the directory list cut down
TrajectoryExistsOnlyTrajectory(fs, dn) == Path("Trajectory", dn, ".pdb") \in fs
TrajectoryExistsNoRelaxed(fs, dn) ==
    \E d \in {"Trajectory", "Trajectory/LowConfidence", "Trajectory/Clashing"} :
        Path(d, dn, ".pdb") \in fs

\* any(os.path.exists(join(design_paths[d], design_name + ".pdb")) for d in trajectory_dirs)
TrajectoryExists(fs, dn) ==
    \E k \in DOMAIN trajectory_dirs : Path(trajectory_dirs[k], dn, ".pdb") \in fs

Names(table) == {table[k].name : k \in DOMAIN table}
Count(table, nm) == Cardinality({k \in DOMAIN table : table[k].name = nm})

\* ------------------------------------------- collaborators (functions.py)
\* quota: rows of the accepted/final table against the target
check_accepted_designs(fcsv, tset) == Len(fcsv) >= tset.number_of_final_designs

\* budget: distinct trajectories with an artifact in a trajectory directory
AttemptedTrajectories(fs) ==
    {f[2] : f \in {g \in fs : g[1] \in Range(trajectory_dirs)}}
check_n_trajectories(fs, aset) ==
    Cardinality(AttemptedTrajectories(fs)) >= aset.max_trajectories

\* the termination signals binder_hallucination can leave in aux["log"];
\* "NoLog" stands for a result without a log mapping, "NoEntry" for a log
\* without a terminate entry
TerminateSignals == {"", "LowConfidence", "Clashing", "NoLog", "NoEntry"}

\* directory the raw structure artifact of a trajectory ends in
ArtifactDirs(term) ==
    IF term \in {"LowConfidence", "Clashing"} THEN {"Trajectory/" \o term}
    ELSE {"Trajectory"}

\* the test as it would be if it only looked for the log
TerminationSignalIgnored(traj) == traj.has_log

\* the test as it would be with "" as the default of the look-up
TerminationSignalDefaultsEmpty(traj) == ~traj.has_log \/ traj.terminate = ""

\* aux["log"].get("terminate", default)
LogGetTerminate(traj, default) ==
    IF traj.terminate = None THEN default ELSE traj.terminate

\* the test as it would be with "" as the default of the look-up in the log
TerminationSignalMissingIsEmpty(traj) ==
    traj.has_log /\ LogGetTerminate(traj, "") = ""

\* hasattr(trajectory,'aux') and "log" in aux and aux["log"].get("terminate","Unknown") == ""
NoTerminationSignal(traj) ==
    traj.has_log /\ LogGetTerminate(traj, "Unknown") = ""

\* one constraint of a filter group against a record; a missing column fails
apply_initial_filters(metrics) == metrics.plddt > PlddtThreshold
FinalFilterPasses(data) == data.interface_dG < DGThreshold

\* apply_final_filters: the verdict, and one failure-log row on a fail
apply_final_filters(data) == FinalFilterPasses(data)
FailureRows(data, nm) ==
    IF FinalFilterPasses(data) THEN <<>>
    ELSE <<[name |-> nm, column |-> "interface_dG"]>>

\* file operations of functions.py
copy_file(fs, src, dst) == IF src \in fs THEN fs \cup {dst} ELSE fs
remove_file(fs, path) == fs \ {path}
pr_relax(fs, src, dst) == fs \cup {dst}

Row(nm) == [name |-> nm]

\* --------------------------------------------------------------- start-up
NoTrajectory == [terminate |-> None, has_log |-> FALSE]
NoMetrics == [plddt |-> 0]
NoPath == <<>>
NoData == [name |-> <<>>, plddt |-> 0, interface_dG |-> 0]

\* the advanced settings of a run.  Every combination of the clean-up flags
\* is run with a budget of one trajectory and a cap of at most one; with a
\* larger budget the three flags are switched together, and a cap above one
\* is run with a budget of one trajectory and the flags off, which keeps
\* the state space in bounds.
AdvancedSettings ==
    {s \in [max_mpnn_sequences : 0..MaxCap,
            max_trajectories : 1..MaxBudget,
            enable_mpnn : BOOLEAN,
            remove_unrelaxed_complex : BOOLEAN,
            remove_binder_monomer : BOOLEAN,
            remove_unrelaxed_trajectory : BOOLEAN] :
        /\ \/ s.max_trajectories = 1
           \/ /\ s.remove_unrelaxed_complex = s.remove_unrelaxed_trajectory
              /\ s.remove_binder_monomer = s.remove_unrelaxed_trajectory
        /\ \/ s.max_mpnn_sequences <= 1
           \/ /\ s.max_trajectories = 1
              /\ ~s.remove_unrelaxed_complex
              /\ ~s.remove_binder_monomer
              /\ ~s.remove_unrelaxed_trajectory}

\* lines 79-82 and the state of a process that has run no iteration yet
FreshMemory ==
    /\ pc = "check_accepted"
    /\ trajectory_n = 1
    /\ accepted_designs = 0
    /\ final_designs_reached = FALSE
    /\ max_trajectories_reached = FALSE
    /\ seed = 0
    /\ length = 0
    /\ design_name = <<>>
    /\ trajectory_exists = FALSE
    /\ trajectory = NoTrajectory
    /\ mpnn_sequences = <<>>
    /\ i = 0
    /\ mpnn_count = 0
    /\ mpnn_passes = 0
    /\ mpnn_complex_metrics = NoMetrics
    /\ mpnn_complex_pdb = NoPath
    /\ mpnn_filters_passed = FALSE
    /\ mpnn_data = NoData
    /\ mpnn_final_filters_passed = FALSE

Init ==
    /\ advanced_settings \in AdvancedSettings
    /\ target_settings \in [number_of_final_designs : 1..MaxTarget]
    /\ stop_after_mpnn_generation \in BOOLEAN
    /\ trajectory_csv = <<>>
    /\ mpnn_csv = <<>>
    /\ final_csv = <<>>
    /\ failure_csv = <<>>
    /\ files = {}
    /\ FreshMemory
    /\ hallucinated = <<>>
    /\ predicted = <<>>
    /\ relaxed = {}
    /\ redesigned = {}
    /\ filtered = {}
    /\ ledger = <<>>
    /\ crashes = 0
    /\ printed = {}

\* ------------------------------------------------------- the design loop
\* the checks as they would be without their break
AfterQuotaCheckNoBreak(reached) == "check_n"
AfterBudgetCheckNoBreak(reached) == "sample"

\* the quota check as it would be if it went straight to the sampling
AfterQuotaCheckSkipsBudget(reached) == IF reached THEN "done" ELSE "sample"

\* lines 89-91: break when the quota is reached
AfterQuotaCheck(reached) == IF reached THEN "done" ELSE "check_n"

\* lines 96-97: break when the budget is exhausted
AfterBudgetCheck(reached) == IF reached THEN "done" ELSE "sample"

\* lines 87-91: the quota check, and the break
CheckAccepted ==
    /\ pc = "check_accepted"
    /\ final_designs_reached' = check_accepted_designs(final_csv, target_settings)
    /\ pc' = AfterQuotaCheck(final_designs_reached')
    /\ UNCHANGED <<config, persisted, counters, max_trajectories_reached,
                   sampled, trajectory, subloop, candidate, calls, ledger, crashes>>
    /\ UNCHANGED printed

\* the budget check as it would be on the counter of the process
CheckNTrajectoriesByCounter ==
    /\ pc = "check_n"
    /\ max_trajectories_reached' =
         (trajectory_n > advanced_settings.max_trajectories)
    /\ pc' = AfterBudgetCheck(max_trajectories_reached')
    /\ UNCHANGED <<config, persisted, counters, final_designs_reached,
                   sampled, trajectory, subloop, candidate, calls, ledger, crashes>>
    /\ UNCHANGED printed

\* lines 94-97: the budget check, and the break
CheckNTrajectories ==
    /\ pc = "check_n"
    /\ max_trajectories_reached' = check_n_trajectories(files, advanced_settings)
    /\ pc' = AfterBudgetCheck(max_trajectories_reached')
    /\ UNCHANGED <<config, persisted, counters, final_designs_reached,
                   sampled, trajectory, subloop, candidate, calls, ledger, crashes>>
    /\ UNCHANGED printed

\* lines 104-116: seed, length, design name and the look-up on disk
Sample ==
    /\ pc = "sample"
    /\ \E sd \in 0..MaxSeed :
         /\ seed' = sd
         /\ length' = BinderLength
         /\ design_name' = DesignName(BinderLength, sd)
         /\ trajectory_exists' = TrajectoryExists(files, design_name')
    /\ pc' = "dedup"
    /\ UNCHANGED <<config, persisted, counters, checks, trajectory,
                   subloop, candidate, calls, ledger, crashes>>
    /\ UNCHANGED printed

\* lines 118, 330-333: the trajectory exists, skip it
Skip ==
    /\ pc = "dedup"
    /\ trajectory_exists
    /\ pc' = "check_accepted"
    /\ UNCHANGED <<config, persisted, counters, checks, sampled, trajectory,
                   subloop, candidate, calls, ledger, crashes>>
    /\ UNCHANGED printed

\* lines 118-143: binder_hallucination leaves its artifact and its signal
Hallucinate ==
    /\ pc = "dedup"
    /\ ~trajectory_exists
    /\ \E term \in TerminateSignals : \E dir \in ArtifactDirs(term) :
         /\ trajectory' = [terminate |-> IF term \in {"NoLog", "NoEntry"}
                                         THEN None ELSE term,
                           has_log |-> term # "NoLog"]
         /\ files' = files \cup {Path(dir, design_name, ".pdb")}
    /\ hallucinated' = Append(hallucinated,
                              [name |-> design_name, result |-> trajectory'])
    /\ pc' = "terminate_check"
    /\ UNCHANGED <<config, tables, counters, checks, sampled, subloop, candidate,
                   predicted, relaxed, redesigned, filtered, ledger, crashes>>
    /\ UNCHANGED printed

\* the call as it would be inside a handler that goes on with the loop
HallucinateRaisesSwallowed ==
    /\ pc = "dedup"
    /\ ~trajectory_exists
    /\ pc' = "check_accepted"
    /\ UNCHANGED <<config, persisted, counters, checks, sampled, trajectory,
                   subloop, candidate, calls, ledger, crashes>>
    /\ UNCHANGED printed

\* lines 118-121: binder_hallucination raises; the call is in no try block,
\* so the exception leaves the loop and ends the process
HallucinateRaises ==
    /\ pc = "dedup"
    /\ ~trajectory_exists
    /\ pc' = "aborted"
    /\ UNCHANGED <<config, persisted, counters, checks, sampled, trajectory,
                   subloop, candidate, calls, ledger, crashes>>
    /\ UNCHANGED printed

\* lines 147-150: no termination signal, relax the trajectory
RelaxTrajectory ==
    /\ pc = "terminate_check"
    /\ NoTerminationSignal(trajectory)
    /\ files' = pr_relax(files, Path("Trajectory", design_name, ".pdb"),
                         Path("Trajectory/Relaxed", design_name, ".pdb"))
    /\ relaxed' = relaxed \cup {design_name}
    /\ pc' = "trajectory_row"
    /\ UNCHANGED <<config, tables, counters, checks, sampled, trajectory, subloop,
                   candidate, hallucinated, predicted, redesigned, filtered,
                   ledger, crashes>>
    /\ UNCHANGED printed

\* lines 153-185: score the trajectory and append its row
TrajectoryRow ==
    /\ pc = "trajectory_row"
    /\ trajectory_csv' = Append(trajectory_csv, Row(design_name))
    /\ ledger' = Append(ledger, <<"trajectory", design_name>>)
    /\ pc' = "mpnn"
    /\ UNCHANGED <<config, mpnn_csv, final_csv, failure_csv, files, counters,
                   checks, sampled, trajectory, subloop, candidate, calls, crashes>>
    /\ UNCHANGED printed

\* the terminated branch as it would be without its increment
TerminatedNoCount ==
    /\ pc = "terminate_check"
    /\ ~NoTerminationSignal(trajectory)
    /\ pc' = "check_accepted"
    /\ UNCHANGED <<config, persisted, counters, checks, sampled,
                   trajectory, subloop, candidate, calls, ledger, crashes>>
    /\ UNCHANGED printed

\* lines 147, 323-328: the trajectory terminated
Terminated ==
    /\ pc = "terminate_check"
    /\ ~NoTerminationSignal(trajectory)
    /\ trajectory_n' = trajectory_n + 1
    /\ pc' = "check_accepted"
    /\ UNCHANGED <<config, persisted, accepted_designs, checks, sampled,
                   trajectory, subloop, candidate, calls, ledger, crashes>>
    /\ UNCHANGED printed

\* line 188: redesign is switched off
MpnnDisabled ==
    /\ pc = "mpnn"
    /\ ~advanced_settings.enable_mpnn
    /\ pc' = "finish_trajectory"
    /\ UNCHANGED <<config, persisted, counters, checks, sampled, trajectory,
                   subloop, candidate, calls, ledger, crashes>>
    /\ UNCHANGED printed

\* the redesign as it would be if enable_mpnn were not looked at
MpnnGenSequenceAlways ==
    /\ pc = "mpnn"
    /\ \E k \in 0..MaxSeqs : mpnn_sequences' = [j \in 1..k |-> j - 1]
    /\ redesigned' = redesigned \cup {design_name}
    /\ pc' = "stop_check"
    /\ UNCHANGED <<config, persisted, counters, checks, sampled, trajectory,
                   i, mpnn_count, mpnn_passes, candidate, hallucinated,
                   predicted, relaxed, filtered, ledger, crashes>>
    /\ UNCHANGED printed

\* lines 188-195: mpnn_gen_sequence returns its candidates
MpnnGenSequence ==
    /\ pc = "mpnn"
    /\ advanced_settings.enable_mpnn
    /\ \E k \in 0..MaxSeqs : mpnn_sequences' = [j \in 1..k |-> j - 1]
    /\ redesigned' = redesigned \cup {design_name}
    /\ pc' = "stop_check"
    /\ UNCHANGED <<config, persisted, counters, checks, sampled, trajectory,
                   i, mpnn_count, mpnn_passes, candidate, hallucinated,
                   predicted, relaxed, filtered, ledger, crashes>>
    /\ UNCHANGED printed

\* lines 200-216: stop after the redesign, on to the next trajectory
StopAfterMpnn ==
    /\ pc = "stop_check"
    /\ stop_after_mpnn_generation
    /\ trajectory_n' = trajectory_n + 1
    /\ pc' = "check_accepted"
    /\ UNCHANGED <<config, persisted, accepted_designs, checks, sampled,
                   trajectory, subloop, candidate, calls, ledger, crashes>>
    /\ UNCHANGED printed

\* the entry to the sub-loop as it would be without the early stop
StartSubloopDespiteStop ==
    /\ pc = "stop_check"
    /\ mpnn_count' = 1
    /\ mpnn_passes' = 0
    /\ i' = 0
    /\ pc' = "loop_head"
    /\ UNCHANGED <<config, persisted, counters, checks, sampled, trajectory,
                   mpnn_sequences, candidate, calls, ledger, crashes>>
    /\ UNCHANGED printed

\* lines 221-226: the counters of the sub-loop
StartSubloop ==
    /\ pc = "stop_check"
    /\ ~stop_after_mpnn_generation
    /\ mpnn_count' = 1
    /\ mpnn_passes' = 0
    /\ i' = 0
    /\ pc' = "loop_head"
    /\ UNCHANGED <<config, persisted, counters, checks, sampled, trajectory,
                   mpnn_sequences, candidate, calls, ledger, crashes>>
    /\ UNCHANGED printed

\* ------------------------------------------------- the redesign sub-loop
mpnn_design_name == MpnnDesignName(design_name, i)
mpnn_complex_path == Path("MPNN/Complex", mpnn_design_name, ".pdb")
mpnn_relaxed_path == Path("MPNN/Relaxed", mpnn_design_name, ".pdb")
mpnn_monomer_pdb == Path("MPNN/Binder", mpnn_design_name, ".pdb")

\* the cap as it would be if a cap of zero were no cap
CapReachedOnlyPositive(passes, aset) ==
    passes >= aset.max_mpnn_sequences /\ passes > 0

\* the cap as it would be with the comparison off by one, or never taken
CapReachedOffByOne(passes, aset) == passes > aset.max_mpnn_sequences
CapNeverReached(passes, aset) == FALSE

\* line 227: the acceptance cap
CapReached(passes, aset) == passes >= aset.max_mpnn_sequences

\* the end of the sub-loop as it would be if no candidate were an error
EndSubloopEmptyIsError ==
    /\ pc = "loop_head"
    /\ \/ i >= Len(mpnn_sequences)
       \/ CapReached(mpnn_passes, advanced_settings)
    /\ pc' = IF mpnn_sequences = <<>> THEN "done" ELSE "cleanup_trajectory"
    /\ UNCHANGED <<config, persisted, counters, checks, sampled, trajectory,
                   subloop, candidate, calls, ledger, crashes>>
    /\ UNCHANGED printed

\* lines 226-228: the sub-loop is over, by exhaustion or by the cap
EndSubloop ==
    /\ pc = "loop_head"
    /\ \/ i >= Len(mpnn_sequences)
       \/ CapReached(mpnn_passes, advanced_settings)
    /\ pc' = "cleanup_trajectory"
    /\ UNCHANGED <<config, persisted, counters, checks, sampled, trajectory,
                   subloop, candidate, calls, ledger, crashes>>
    /\ UNCHANGED printed

\* lines 226-241: predict the complex and the binder alone
PredictCandidate ==
    /\ pc = "loop_head"
    /\ i < Len(mpnn_sequences)
    /\ ~CapReached(mpnn_passes, advanced_settings)
    /\ \/ /\ mpnn_complex_pdb' = NoPath
          /\ mpnn_complex_metrics' = NoMetrics
          /\ files' = files \cup {mpnn_monomer_pdb}
       \/ /\ mpnn_complex_pdb' = mpnn_complex_path
          /\ \E p \in PlddtValues : mpnn_complex_metrics' = [plddt |-> p]
          /\ files' = files \cup {mpnn_complex_path, mpnn_monomer_pdb}
    /\ predicted' = Append(predicted, [name |-> mpnn_design_name,
                                       ok |-> mpnn_complex_pdb' # NoPath])
    /\ pc' = "complex_check"
    /\ UNCHANGED <<config, tables, counters, checks, sampled, trajectory, subloop,
                   mpnn_filters_passed, mpnn_data, mpnn_final_filters_passed,
                   hallucinated, relaxed, redesigned, filtered, ledger, crashes>>
    /\ UNCHANGED printed

\* the test as it would be if the missing complex went unnoticed
ComplexPredictedAlways == TRUE

\* the test as it would be if the initial filter gated the candidate
ComplexPredictedAndFiltered ==
    mpnn_complex_pdb # NoPath /\ apply_initial_filters(mpnn_complex_metrics)

\* line 244: if mpnn_complex_pdb is not None
ComplexPredicted == mpnn_complex_pdb # NoPath

\* lines 244, 309-312: the complex prediction failed, which is printed
PredictionFailed ==
    /\ pc = "complex_check"
    /\ ~ComplexPredicted
    /\ mpnn_count' = mpnn_count + 1
    /\ i' = i + 1
    /\ pc' = "loop_head"
    /\ UNCHANGED <<config, persisted, counters, checks, sampled, trajectory,
                   mpnn_sequences, mpnn_passes, candidate, calls, ledger, crashes>>
    /\ printed' = printed \cup {<<"MPNN design prediction failed for: ", mpnn_design_name>>}

\* lines 244-284: initial filter, relaxation, scores, the full record
RelaxCandidate ==
    /\ pc = "complex_check"
    /\ ComplexPredicted
    /\ mpnn_filters_passed' = apply_initial_filters(mpnn_complex_metrics)
    /\ files' = pr_relax(files, mpnn_complex_path, mpnn_relaxed_path)
    /\ relaxed' = relaxed \cup {mpnn_design_name}
    /\ \E dg \in DGValues :
         mpnn_data' = [name |-> mpnn_design_name,
                       plddt |-> mpnn_complex_metrics.plddt,
                       interface_dG |-> dg]
    /\ pc' = "mpnn_row"
    /\ UNCHANGED <<config, tables, counters, checks, sampled, trajectory, subloop,
                   mpnn_complex_metrics, mpnn_complex_pdb,
                   mpnn_final_filters_passed, hallucinated, predicted,
                   redesigned, filtered, ledger, crashes>>
    /\ UNCHANGED printed

\* line 285: the per-sequence row, whatever the filters say
MpnnRow ==
    /\ pc = "mpnn_row"
    /\ mpnn_csv' = Append(mpnn_csv, mpnn_data)
    /\ ledger' = Append(ledger, <<"mpnn", mpnn_design_name>>)
    /\ pc' = "final_filter"
    /\ UNCHANGED <<config, trajectory_csv, final_csv, failure_csv, files,
                   counters, checks, sampled, trajectory, subloop, candidate,
                   calls, crashes>>
    /\ UNCHANGED printed

\* lines 288-289: the final filter, which logs its failures
FinalFilter ==
    /\ pc = "final_filter"
    /\ mpnn_final_filters_passed' = apply_final_filters(mpnn_data)
    /\ failure_csv' = failure_csv \o FailureRows(mpnn_data, mpnn_design_name)
    /\ ledger' = ledger \o [k \in DOMAIN FailureRows(mpnn_data, mpnn_design_name)
                              |-> <<"failure", mpnn_design_name>>]
    /\ filtered' = filtered \cup {mpnn_design_name}
    /\ pc' = "branch"
    /\ UNCHANGED <<config, trajectory_csv, mpnn_csv, final_csv, files, counters,
                   checks, sampled, trajectory, subloop, mpnn_complex_metrics,
                   mpnn_complex_pdb, mpnn_filters_passed, mpnn_data,
                   hallucinated, predicted, relaxed, redesigned, crashes>>
    /\ UNCHANGED printed

\* the branch as it would be if it ignored or inverted the verdict
AcceptsAlways(passed) == TRUE
AcceptsInverted(passed) == ~passed

\* line 291: the branch on the final filter
Accepts(passed) == passed

\* lines 291-295: copy complex, relaxed complex and monomer to Accepted
AcceptCopy ==
    /\ pc = "branch"
    /\ Accepts(mpnn_final_filters_passed)
    /\ files' = copy_file(copy_file(copy_file(files,
                    mpnn_complex_path,
                    Path("MPNN/Accepted", mpnn_design_name, ".pdb")),
                    mpnn_relaxed_path,
                    Path("MPNN/Accepted", mpnn_design_name, "_relaxed.pdb")),
                    mpnn_monomer_pdb,
                    Path("MPNN/Accepted", mpnn_design_name, "_monomer.pdb"))
    /\ pc' = "accept_row"
    /\ UNCHANGED <<config, tables, counters, checks, sampled, trajectory,
                   subloop, candidate, calls, ledger, crashes>>
    /\ UNCHANGED printed

\* the accepted/final row as it would be if put at the head of the table
AcceptRowPrepends ==
    /\ pc = "accept_row"
    /\ final_csv' = <<mpnn_data>> \o final_csv
    /\ ledger' = <<<<"final", mpnn_design_name>>>> \o ledger
    /\ mpnn_passes' = mpnn_passes + 1
    /\ pc' = "cleanup_candidate"
    /\ UNCHANGED <<config, trajectory_csv, mpnn_csv, failure_csv, files, counters,
                   checks, sampled, trajectory, mpnn_sequences, i, mpnn_count,
                   candidate, calls, crashes>>
    /\ UNCHANGED printed

\* lines 296-298: the accepted/final row and the acceptance counter
AcceptRow ==
    /\ pc = "accept_row"
    /\ final_csv' = Append(final_csv, mpnn_data)
    /\ ledger' = Append(ledger, <<"final", mpnn_design_name>>)
    /\ mpnn_passes' = mpnn_passes + 1
    /\ pc' = "cleanup_candidate"
    /\ UNCHANGED <<config, trajectory_csv, mpnn_csv, failure_csv, files, counters,
                   checks, sampled, trajectory, mpnn_sequences, i, mpnn_count,
                   candidate, calls, crashes>>
    /\ UNCHANGED printed

\* lines 299-300: rejected
Reject ==
    /\ pc = "branch"
    /\ ~Accepts(mpnn_final_filters_passed)
    /\ pc' = "cleanup_candidate"
    /\ UNCHANGED <<config, persisted, counters, checks, sampled, trajectory,
                   subloop, candidate, calls, ledger, crashes>>
    /\ UNCHANGED printed

\* lines 303-307: what the clean-up of one candidate deletes
CandidateCleanupAnyOutcome(fs, aset, passed, complex, monomer) ==
    LET fs1 == IF aset.remove_unrelaxed_complex THEN remove_file(fs, complex)
               ELSE fs
    IN IF aset.remove_binder_monomer
       THEN remove_file(fs1, monomer) ELSE fs1

CandidateCleanup(fs, aset, passed, complex, monomer) ==
    LET fs1 == IF aset.remove_unrelaxed_complex THEN remove_file(fs, complex)
               ELSE fs
    IN IF aset.remove_binder_monomer /\ passed = FALSE
       THEN remove_file(fs1, monomer) ELSE fs1

\* lines 302-312: clean up and advance to the next candidate
CleanupCandidate ==
    /\ pc = "cleanup_candidate"
    /\ files' = CandidateCleanup(files, advanced_settings,
                    mpnn_final_filters_passed, mpnn_complex_path, mpnn_monomer_pdb)
    /\ mpnn_count' = mpnn_count + 1
    /\ i' = i + 1
    /\ pc' = "loop_head"
    /\ UNCHANGED <<config, tables, counters, checks, sampled, trajectory,
                   mpnn_sequences, mpnn_passes, candidate, calls, ledger, crashes>>
    /\ UNCHANGED printed

\* the clean-up as it would be if it took the relaxed trajectory as well
CleanupTrajectoryAlsoRelaxed ==
    /\ pc = "cleanup_trajectory"
    /\ files' = IF advanced_settings.remove_unrelaxed_trajectory
                THEN remove_file(remove_file(files,
                         Path("Trajectory", design_name, ".pdb")),
                         Path("Trajectory/Relaxed", design_name, ".pdb"))
                ELSE files
    /\ pc' = "finish_trajectory"
    /\ UNCHANGED <<config, tables, counters, checks, sampled, trajectory,
                   subloop, candidate, calls, ledger, crashes>>
    /\ UNCHANGED printed

\* lines 314-316: the clean-up after the sub-loop
CleanupTrajectory ==
    /\ pc = "cleanup_trajectory"
    /\ files' = IF advanced_settings.remove_unrelaxed_trajectory
                THEN remove_file(files, Path("Trajectory", design_name, ".pdb"))
                ELSE files
    /\ pc' = "finish_trajectory"
    /\ UNCHANGED <<config, tables, counters, checks, sampled, trajectory,
                   subloop, candidate, calls, ledger, crashes>>
    /\ UNCHANGED printed

\* lines 318-321: the trajectory is finished
FinishTrajectory ==
    /\ pc = "finish_trajectory"
    /\ trajectory_n' = trajectory_n + 1
    /\ pc' = "check_accepted"
    /\ UNCHANGED <<config, persisted, accepted_designs, checks, sampled,
                   trajectory, subloop, candidate, calls, ledger, crashes>>
    /\ UNCHANGED printed

\* the process dies between two steps and is started again on the same
\* design directory: lines 60-63 keep existing tables, lines 79-82 reset
Crash ==
    /\ crashes < MaxCrashes
    /\ crashes' = crashes + 1
    /\ pc' = "check_accepted"
    /\ trajectory_n' = 1
    /\ accepted_designs' = 0
    /\ final_designs_reached' = FALSE
    /\ max_trajectories_reached' = FALSE
    /\ seed' = 0
    /\ length' = 0
    /\ design_name' = <<>>
    /\ trajectory_exists' = FALSE
    /\ trajectory' = NoTrajectory
    /\ mpnn_sequences' = <<>>
    /\ i' = 0
    /\ mpnn_count' = 0
    /\ mpnn_passes' = 0
    /\ mpnn_complex_metrics' = NoMetrics
    /\ mpnn_complex_pdb' = NoPath
    /\ mpnn_filters_passed' = FALSE
    /\ mpnn_data' = NoData
    /\ mpnn_final_filters_passed' = FALSE
    /\ UNCHANGED <<config, persisted, calls, ledger>>
    /\ UNCHANGED printed

Next ==
    \/ CheckAccepted \/ CheckNTrajectories \/ Sample \/ Skip \/ Hallucinate
    \/ RelaxTrajectory \/ TrajectoryRow \/ Terminated
    \/ MpnnDisabled \/ MpnnGenSequence \/ StopAfterMpnn \/ StartSubloop
    \/ EndSubloop \/ PredictCandidate \/ PredictionFailed \/ RelaxCandidate
    \/ MpnnRow \/ FinalFilter \/ AcceptCopy \/ AcceptRow \/ Reject
    \/ CleanupCandidate \/ CleanupTrajectory \/ FinishTrajectory
    \/ HallucinateRaises
    \/ Crash

Spec == Init /\ [][Next]_vars

\* the steps of the running process: every call returns, every statement is
\* followed by the next
Program ==
    \/ CheckAccepted \/ CheckNTrajectories \/ Sample \/ Skip \/ Hallucinate
    \/ RelaxTrajectory \/ TrajectoryRow \/ Terminated
    \/ MpnnDisabled \/ MpnnGenSequence \/ StopAfterMpnn \/ StartSubloop
    \/ EndSubloop \/ PredictCandidate \/ PredictionFailed \/ RelaxCandidate
    \/ MpnnRow \/ FinalFilter \/ AcceptCopy \/ AcceptRow \/ Reject
    \/ CleanupCandidate \/ CleanupTrajectory \/ FinishTrajectory

\* lines 104-116 drawing a design name that is not on disk: the random
\* draw does not avoid the free names for ever
SampleFresh == Sample /\ ~trajectory_exists'

\* a run that is not killed, started with the clean-up switched off
InitFair ==
    /\ Init
    /\ ~advanced_settings.remove_unrelaxed_complex
    /\ ~advanced_settings.remove_binder_monomer
    /\ ~advanced_settings.remove_unrelaxed_trajectory

SpecFair ==
    InitFair /\ [][Program]_vars /\ WF_vars(Program) /\ SF_vars(SampleFresh)

TypeOK ==
    /\ pc \in {"check_accepted", "check_n", "sample", "dedup", "terminate_check",
                "trajectory_row", "mpnn", "stop_check", "loop_head",
                "complex_check", "mpnn_row", "final_filter", "branch",
                "accept_row", "cleanup_candidate", "cleanup_trajectory",
                "finish_trajectory", "done", "aborted"}
    /\ mpnn_passes \in 0..MaxSeqs
    /\ i \in 0..MaxSeqs

\* ----------------------------------------------------------- properties
cap == advanced_settings.max_mpnn_sequences
target == target_settings.number_of_final_designs
budget == advanced_settings.max_trajectories

\* the trajectory a candidate name is derived from
Parent(nm) == SubSeq(nm, 1, 5)
FinalRowsOf(dn) == {k \in DOMAIN final_csv : Parent(final_csv[k].name) = dn}
PredictedOf(dn) == {k \in DOMAIN predicted : Parent(predicted[k].name) = dn}

ArtifactOnDisk(dn) ==
    \/ <<"Trajectory", dn \o <<".pdb">>>> \in files
    \/ <<"Trajectory/Relaxed", dn \o <<".pdb">>>> \in files
    \/ <<"Trajectory/LowConfidence", dn \o <<".pdb">>>> \in files
    \/ <<"Trajectory/Clashing", dn \o <<".pdb">>>> \in files

AcceptedArtifacts(nm) ==
    {<<"MPNN/Accepted", nm \o <<".pdb">>>>,
     <<"MPNN/Accepted", nm \o <<"_relaxed.pdb">>>>,
     <<"MPNN/Accepted", nm \o <<"_monomer.pdb">>>>}

SubloopPcs == {"loop_head", "complex_check", "mpnn_row", "final_filter",
               "branch", "accept_row", "cleanup_candidate",
               "cleanup_trajectory", "finish_trajectory"}

\* the candidates of the running trajectory the sub-loop is through with
FinishedCandidate(nm) ==
    /\ pc \in SubloopPcs
    /\ \E j \in 0..(i - 1) : nm = design_name \o <<"_mpnn_", ToString(j)>>

\* the iteration of a trajectory is between generation and its row
InProgress(dn) == dn = design_name /\ pc \in {"terminate_check", "trajectory_row"}

\* C1: when the artifact of the sampled design name is in one of the four
\* trajectory directories, the iteration goes back to the stop checks without
\* calling a collaborator, appending a row or touching a file; also after a
\* crash and restart.
C1_DedupSkips ==
    [][(pc = "dedup" /\ ArtifactOnDisk(design_name))
         => (pc' = "check_accepted" /\ UNCHANGED <<persisted, calls, ledger>>)]_vars

C1_Witness ==
    /\ pc = "dedup"
    /\ ArtifactOnDisk(design_name)
    /\ <<"Trajectory", design_name \o <<".pdb">>>> \notin files
    /\ crashes > 0

\* C2: no trajectory has more rows in the accepted/final table than the cap.
C2_AcceptanceCapRows ==
    \A k \in DOMAIN hallucinated :
        Cardinality(FinalRowsOf(hallucinated[k].name)) <= cap

C2_Witness ==
    /\ pc = "cleanup_trajectory"
    /\ cap >= 1
    /\ i < Len(mpnn_sequences)
    /\ Cardinality(FinalRowsOf(design_name)) = cap

\* C3 as stated: with a cap C <= K, the complex prediction is called for at
\* most C candidates of the trajectory.
C3_ValidatedAtMostCap ==
    (pc \in SubloopPcs /\ cap <= Len(mpnn_sequences))
        => Cardinality(PredictedOf(design_name)) <= cap

\* C3 amended: the complex prediction is called for a candidate only while
\* fewer than C candidates of its trajectory have been accepted.
C3_PredictOnlyBelowCap ==
    [][predicted' # predicted
         => /\ Cardinality(FinalRowsOf(design_name)) < cap
            /\ Parent(predicted'[Len(predicted')].name) = design_name]_vars

C3_Witness ==
    /\ pc \in SubloopPcs
    /\ cap >= 1
    /\ cap <= Len(mpnn_sequences)
    /\ Cardinality(PredictedOf(design_name)) > cap

\* C4: when the quota check finds the accepted/final table at the target,
\* the loop exits: nothing is sampled or generated and nothing is written
\* from then on.
C4_QuotaTermination ==
    [][(\/ pc = "check_accepted" /\ Len(final_csv) >= target
        \/ pc = "done" /\ final_designs_reached)
         => /\ pc' \in {"done", "check_accepted"}
            /\ UNCHANGED <<persisted, calls, ledger>>]_vars

C4_Witness ==
    /\ pc = "done"
    /\ final_designs_reached
    /\ Len(final_csv) >= target

\* C5: when the budget check finds as many attempted trajectories as the
\* maximum, the loop exits without sampling or generating, also below quota.
C5_BudgetTermination ==
    [][(\/ pc = "check_n" /\ Len(hallucinated) >= budget
        \/ pc = "done" /\ max_trajectories_reached)
         => /\ pc' \in {"done", "check_accepted"}
            /\ UNCHANGED <<persisted, calls, ledger>>]_vars

C5_Witness ==
    /\ pc = "done"
    /\ max_trajectories_reached
    /\ Len(hallucinated) >= budget
    /\ Len(final_csv) < target

\* C6: every accepted/final row has exactly one per-sequence row of the same
\* name, appended before it; also across a crash and restart.
C6_FinalImpliesPerSequence ==
    /\ \A k \in DOMAIN final_csv : Count(mpnn_csv, final_csv[k].name) = 1
    /\ \A p \in DOMAIN ledger :
          ledger[p][1] = "final"
            => \E q \in 1..(p - 1) : ledger[q] = <<"mpnn", ledger[p][2]>>

C6_Witness ==
    /\ crashes > 0
    /\ pc = "cleanup_candidate"
    /\ mpnn_final_filters_passed
    /\ mpnn_design_name \in Names(final_csv)
    /\ Len(mpnn_csv) > Len(final_csv)

\* C7: a candidate is in the accepted/final table exactly when its complex
\* prediction succeeded and its record passes the final filter; the append
\* comes with the three copies in Accepted and one more on the counter.
C7_FinalFilterGate ==
    /\ [](\A k \in DOMAIN final_csv :
            /\ FinalFilterPasses(final_csv[k])
            /\ \E j \in DOMAIN predicted :
                  predicted[j].name = final_csv[k].name /\ predicted[j].ok)
    /\ [](\A r \in Range(mpnn_csv) :
            (FinishedCandidate(r.name) /\ FinalFilterPasses(r))
              => /\ r.name \in Names(final_csv)
                 /\ AcceptedArtifacts(r.name) \subseteq files)
    /\ [][final_csv' # final_csv
            => /\ final_csv' = Append(final_csv, mpnn_data)
               /\ AcceptedArtifacts(mpnn_data.name) \subseteq files
               /\ mpnn_passes' = mpnn_passes + 1]_vars

C7_Witness ==
    /\ pc = "cleanup_candidate"
    /\ mpnn_final_filters_passed
    /\ mpnn_passes = 1
    /\ mpnn_data \in Range(final_csv)
    /\ \E j \in DOMAIN predicted : ~predicted[j].ok

\* C8: a candidate whose record fails the final filter gets no copy in
\* Accepted and no accepted/final row, exactly one failure-log row with its
\* name, and leaves the acceptance counter as it was.
C8_FailureAudit ==
    /\ [](\A r \in Range(mpnn_csv) :
            (r.name \in filtered /\ ~FinalFilterPasses(r))
              => /\ AcceptedArtifacts(r.name) \cap files = {}
                 /\ r.name \notin Names(final_csv)
                 /\ Count(failure_csv, r.name) = 1)
    /\ [][(pc = "branch" /\ ~FinalFilterPasses(mpnn_data) /\ crashes' = crashes)
            => mpnn_passes' = mpnn_passes]_vars

C8_Witness ==
    /\ pc = "cleanup_candidate"
    /\ ~mpnn_final_filters_passed
    /\ Count(failure_csv, mpnn_design_name) = 1
    /\ mpnn_design_name \notin Names(final_csv)

C11_CounterEveryIteration ==
    [][(pc' = "check_accepted" /\ pc \notin {"check_accepted", "done"}
          /\ crashes' = crashes)
         => trajectory_n' = trajectory_n + 1]_vars

\* C11 amended: an iteration that ends by termination signal, early stop or
\* completion leaves trajectory_n one higher; a skipped one leaves it as it
\* was; no other step of the process changes it.
C11_CounterUnlessSkipped ==
    [][crashes' = crashes
         => trajectory_n' = trajectory_n +
              (IF pc' = "check_accepted"
                  /\ pc \notin {"check_accepted", "done", "dedup"}
               THEN 1 ELSE 0)]_vars

C11_Witness ==
    /\ pc = "check_accepted"
    /\ trajectory_exists
    /\ crashes = 0
    /\ trajectory_n = 2
    /\ Len(hallucinated) = 1

\* every design name a run can sample
AllDesignNames ==
    {<<"binder", "_l", ToString(BinderLength), "_s", ToString(sd)>> :
        sd \in 0..MaxSeed}

\* C12: the verdicts of the two stop checks are functions of the tables, the
\* design directories and the settings; the counters of the process, which
\* a restart resets, have no part in them.
C12_StopChecksFromPersistedState ==
    [][crashes' = crashes
         => /\ pc = "check_accepted"
                 => (pc' = "done" <=> Len(final_csv) >= target)
            /\ pc = "check_n"
                 => (pc' = "done" <=>
                       Cardinality({dn \in AllDesignNames : ArtifactOnDisk(dn)})
                         >= budget)]_vars

C12_Witness ==
    /\ pc = "done"
    /\ max_trajectories_reached
    /\ crashes > 0
    /\ trajectory_n = 1
    /\ budget = 2

C14_FailedPrediction ==
    /\ [](\A k \in DOMAIN predicted :
            ~predicted[k].ok
              => /\ predicted[k].name \notin Names(mpnn_csv)
                 /\ predicted[k].name \notin Names(final_csv)
                 /\ predicted[k].name \notin relaxed
                 /\ predicted[k].name \notin filtered)
    /\ [][(pc = "complex_check" /\ mpnn_complex_pdb = <<>>
             /\ crashes' = crashes /\ pc' # pc)
            => /\ pc' = "loop_head"
               /\ i' = i + 1
               /\ mpnn_passes' = mpnn_passes
               /\ <<"MPNN design prediction failed for: ",
                     design_name \o <<"_mpnn_", ToString(i)>>>> \in printed'
               /\ UNCHANGED persisted]_vars

C14_Witness ==
    /\ pc = "complex_check"
    /\ Len(predicted) >= 2
    /\ ~predicted[Len(predicted) - 1].ok
    /\ Parent(predicted[Len(predicted) - 1].name) = design_name
    /\ Cardinality(printed) >= 1

\* C15: with the early-stop flag set nothing is predicted, relaxed, scored
\* or filtered for a candidate, the sub-loop writes no row, and the step
\* after the redesign is the next outer iteration.
C15_EarlyStop ==
    /\ [](stop_after_mpnn_generation
            => /\ predicted = <<>>
               /\ filtered = {}
               /\ mpnn_csv = <<>>
               /\ final_csv = <<>>
               /\ failure_csv = <<>>
               /\ relaxed \subseteq {hallucinated[k].name : k \in DOMAIN hallucinated})
    /\ [][(stop_after_mpnn_generation /\ pc = "stop_check"
             /\ crashes' = crashes /\ pc' # pc)
            => pc' = "check_accepted"]_vars

C15_Witness ==
    /\ stop_after_mpnn_generation
    /\ pc = "check_accepted"
    /\ design_name \in redesigned
    /\ mpnn_sequences # <<>>
    /\ trajectory_n = 2

\* C16: a trajectory with a non-empty termination signal is not relaxed and
\* not scored, is not handed to the redesign, and no per-sequence or
\* accepted/final row carries a name derived from it.
C16_TerminatedAbandoned ==
    \A k \in DOMAIN hallucinated :
        LET h == hallucinated[k]
        IN (h.result.has_log /\ h.result.terminate # "")
             => /\ h.name \notin relaxed
                /\ h.name \notin redesigned
                /\ h.name \notin Names(trajectory_csv)
                /\ \A r \in Range(mpnn_csv) \cup Range(final_csv) :
                      Parent(r.name) # h.name

C16_Witness ==
    /\ pc = "check_accepted"
    /\ Len(hallucinated) = 2
    /\ hallucinated[2].result.has_log
    /\ hallucinated[2].result.terminate # ""
    /\ mpnn_csv # <<>>

\* C17: an iteration starts at the quota check; the budget check is entered
\* only from the quota check and the sampling only from the budget check,
\* the dedup look-up and the generation only after the sampling; a reached
\* quota ends the loop with the budget check not evaluated; the loop ends
\* only with one of the two verdicts true.
C17_StopCheckOrder ==
    [][pc' # pc
        => /\ pc' = "check_n" => pc = "check_accepted"
           /\ pc' = "sample" => pc = "check_n"
           /\ pc' = "dedup" => pc = "sample"
           /\ pc' = "terminate_check" => pc = "dedup"
           /\ pc = "check_accepted" => pc' \in {"check_n", "done"}
           /\ (pc = "check_accepted" /\ Len(final_csv) >= target)
                => /\ pc' = "done"
                   /\ max_trajectories_reached' = max_trajectories_reached
           /\ pc' = "done"
                => (final_designs_reached' \/ max_trajectories_reached')]_vars

C17_Witness ==
    /\ pc = "done"
    /\ crashes = 0
    /\ final_designs_reached
    /\ ~max_trajectories_reached
    /\ trajectory_n = 2
    /\ Cardinality({dn \in AllDesignNames : ArtifactOnDisk(dn)}) >= budget

\* the index i of the candidate name <design name>_mpnn_<i>
CandidateIndex(nm) == CHOOSE j \in 0..MaxSeqs : ToString(j) = nm[7]

\* C18: the appends of a run, in the order they were made: a per-sequence
\* row comes after the trajectory row of its design; the per-sequence rows
\* of one trajectory come in increasing candidate index; an accepted/final
\* row comes after the per-sequence row of its candidate with no other
\* per-sequence row in between; the rows of one trajectory are contiguous,
\* that is, a row that does not come right after a row of its trajectory
\* is the first row of its trajectory.
C18_StrictAppendOrder ==
    LET IsMpnn(e) == e[1] = "mpnn"
        IsFinal(e) == e[1] = "final"
        mpnn_order == SelectSeq(ledger, IsMpnn)
        final_order == SelectSeq(ledger, IsFinal)
    IN /\ [k \in DOMAIN mpnn_order |-> mpnn_order[k][2]]
            = [k \in DOMAIN mpnn_csv |-> mpnn_csv[k].name]
       /\ [k \in DOMAIN final_order |-> final_order[k][2]]
            = [k \in DOMAIN final_csv |-> final_csv[k].name]
       /\ \A q \in DOMAIN ledger :
            ledger[q][1] = "mpnn"
              => \E p \in 1..(q - 1) :
                    ledger[p] = <<"trajectory", SubSeq(ledger[q][2], 1, 5)>>
       /\ \A q \in DOMAIN ledger :
            ledger[q][1] = "mpnn"
              => \A p \in 1..(q - 1) :
                    (ledger[p][1] = "mpnn"
                       /\ SubSeq(ledger[p][2], 1, 5) = SubSeq(ledger[q][2], 1, 5))
                      => CandidateIndex(ledger[p][2])
                            < CandidateIndex(ledger[q][2])
       /\ \A q \in DOMAIN ledger :
            ledger[q][1] = "final"
              => \E p \in 1..(q - 1) :
                    /\ ledger[p] = <<"mpnn", ledger[q][2]>>
                    /\ \A r \in (p + 1)..(q - 1) : ledger[r][1] # "mpnn"
       /\ \A r \in 2..Len(ledger) :
            SubSeq(ledger[r - 1][2], 1, 5) # SubSeq(ledger[r][2], 1, 5)
              => \A p \in 1..(r - 1) :
                    SubSeq(ledger[p][2], 1, 5) # SubSeq(ledger[r][2], 1, 5)

C18_Witness ==
    /\ Len(ledger) >= 5
    /\ ledger[1][1] = "trajectory"
    /\ ledger[2][1] = "mpnn"
    /\ ledger[3][1] = "final"
    /\ ledger[4][1] = "mpnn"
    /\ ledger[5][1] = "final"
    /\ ledger[4][2] # ledger[2][2]
    /\ SubSeq(ledger[4][2], 1, 5) = ledger[1][2]

\* C19: a trajectory with as many accepted/final rows as the cap: no
\* candidate of it with an index above the accepted ones is predicted or
\* has a per-sequence, accepted/final or failure-log row.
C19_PastCapUntouched ==
    \A dn \in AllDesignNames :
        LET accepted == {final_csv[k].name : k \in FinalRowsOf(dn)}
            remaining ==
                {dn \o <<"_mpnn_", ToString(j)>> : j \in
                    {j \in 0..MaxSeqs :
                        \A nm \in accepted : CandidateIndex(nm) < j}}
        IN Cardinality(FinalRowsOf(dn)) >= cap
             => \A nm \in remaining :
                  /\ \A k \in DOMAIN predicted : predicted[k].name # nm
                  /\ nm \notin Names(mpnn_csv)
                  /\ nm \notin Names(final_csv)
                  /\ nm \notin Names(failure_csv)

C19_Witness ==
    /\ pc = "cleanup_trajectory"
    /\ cap = 1
    /\ Len(mpnn_sequences) = 2
    /\ i = 1
    /\ mpnn_passes = 1
    /\ design_name \o <<"_mpnn_", "0">> \in Names(final_csv)
    /\ Len(predicted) = 1

\* C20: the clean-up of a validated candidate deletes the unrelaxed
\* complex exactly when remove_unrelaxed_complex is set, the monomer
\* exactly when the final filter failed and remove_binder_monomer is set,
\* and nothing else; no step deletes a file of the accepted directory, and
\* the monomer of every candidate with an accepted/final row is on disk.
C20_CleanupPolicy ==
    /\ [][(pc = "cleanup_candidate" /\ crashes' = crashes /\ pc' # pc)
            => LET nm == design_name \o <<"_mpnn_", ToString(i)>>
                   complex == <<"MPNN/Complex", nm \o <<".pdb">>>>
                   monomer == <<"MPNN/Binder", nm \o <<".pdb">>>>
               IN /\ complex \in files /\ monomer \in files
                  /\ complex \notin files'
                       <=> advanced_settings.remove_unrelaxed_complex
                  /\ monomer \notin files'
                       <=> (advanced_settings.remove_binder_monomer
                              /\ ~mpnn_final_filters_passed)
                  /\ files' \subseteq files
                  /\ files \ files' \subseteq {complex, monomer}]_vars
    /\ [][\A f \in files : f[1] = "MPNN/Accepted" => f \in files']_vars
    /\ [](\A k \in DOMAIN final_csv :
            <<"MPNN/Binder", final_csv[k].name \o <<".pdb">>>> \in files)

C20_Witness ==
    /\ pc = "loop_head"
    /\ i = 1
    /\ advanced_settings.remove_unrelaxed_complex
    /\ advanced_settings.remove_binder_monomer
    /\ design_name \o <<"_mpnn_", "0">> \in Names(final_csv)
    /\ <<"MPNN/Complex", design_name \o <<"_mpnn_", "0", ".pdb">>>> \notin files
    /\ <<"MPNN/Binder", design_name \o <<"_mpnn_", "0", ".pdb">>>> \in files
    /\ AcceptedArtifacts(design_name \o <<"_mpnn_", "0">>) \subseteq files

\* the positions of an iteration between the redesign and its end
AfterRedesignPcs == {"stop_check", "loop_head", "cleanup_trajectory",
                     "finish_trajectory"}

\* C21: when mpnn_gen_sequence has returned no candidate, the rest of the
\* iteration predicts nothing and appends no row to any table, and it ends
\* at the stop checks of the next iteration with the trajectory counter
\* raised by one.
C21_ZeroCandidates ==
    /\ []((pc \in AfterRedesignPcs /\ design_name \in redesigned
            /\ mpnn_sequences = <<>>)
           => /\ \A k \in DOMAIN predicted :
                    SubSeq(predicted[k].name, 1, 5) # design_name
              /\ \A r \in Range(mpnn_csv) \cup Range(final_csv)
                         \cup Range(failure_csv) :
                    SubSeq(r.name, 1, 5) # design_name)
    /\ [][(pc \in AfterRedesignPcs /\ design_name \in redesigned
             /\ mpnn_sequences = <<>> /\ crashes' = crashes /\ pc' # pc)
            => /\ pc' \in AfterRedesignPcs \cup {"check_accepted"}
               /\ predicted' = predicted
               /\ UNCHANGED tables
               /\ trajectory_n' = trajectory_n
                     + (IF pc' = "check_accepted" THEN 1 ELSE 0)]_vars

C21_Witness ==
    /\ pc = "check_n"
    /\ crashes = 0
    /\ ~stop_after_mpnn_generation
    /\ trajectory_n = 2
    /\ Len(hallucinated) = 1
    /\ design_name \in redesigned
    /\ mpnn_sequences = <<>>

\* C22: when binder_hallucination raises, the process ends there: the step
\* out of the dedup look-up that brings no generation result ends in the
\* aborted state with tables and files as they were, the design name has
\* no trajectory, per-sequence or accepted/final row, and the process takes
\* no further step.
C22_GenerationFailurePropagates ==
    /\ [][(pc = "dedup" /\ ~trajectory_exists /\ hallucinated' = hallucinated
             /\ crashes' = crashes /\ pc' # pc)
            => (pc' = "aborted" /\ UNCHANGED persisted)]_vars
    /\ [](pc = "aborted"
            => \A r \in Range(trajectory_csv) \cup Range(mpnn_csv)
                       \cup Range(final_csv) :
                  SubSeq(r.name, 1, 5) # design_name)
    /\ [][(pc = "aborted" /\ crashes' = crashes) => UNCHANGED vars]_vars

C22_Witness ==
    /\ pc = "aborted"
    /\ crashes = 0
    /\ Len(hallucinated) = 1
    /\ Len(trajectory_csv) = 1
    /\ design_name # hallucinated[1].name

\* C23: with a cap of at least one the accepted/final table never holds
\* more than target + cap - 1 rows, and it holds at least target rows when
\* the loop has left through the quota check; the sub-loop goes on to its
\* next candidate below the cap also when the table has reached the target.
C23_BoundedOvershoot ==
    /\ [](advanced_settings.max_mpnn_sequences >= 1
            => Len(final_csv) <= target_settings.number_of_final_designs
                                   + advanced_settings.max_mpnn_sequences - 1)
    /\ []((pc = "done" /\ final_designs_reached)
            => Len(final_csv) >= target_settings.number_of_final_designs)
    /\ [][(pc = "loop_head" /\ i < Len(mpnn_sequences)
             /\ mpnn_passes < advanced_settings.max_mpnn_sequences
             /\ crashes' = crashes /\ pc' # pc)
            => pc' = "complex_check"]_vars

C23_Witness ==
    /\ pc = "done"
    /\ final_designs_reached
    /\ crashes = 0
    /\ advanced_settings.max_mpnn_sequences = 2
    /\ target_settings.number_of_final_designs = 1
    /\ Len(final_csv) = 2
    /\ Len(hallucinated) = 1

\* C24: a generation result without a log mapping, or with a log that has
\* no terminate entry, is not relaxed, gets no trajectory row and is not
\* handed to the redesign; its iteration ends like that of a terminated
\* trajectory; every relaxed trajectory had a present and empty signal.
C24_MissingSignalTerminates ==
    /\ [](\A k \in DOMAIN hallucinated :
            LET h == hallucinated[k]
            IN /\ (~h.result.has_log \/ h.result.terminate = "None")
                    => /\ h.name \notin relaxed
                       /\ h.name \notin redesigned
                       /\ h.name \notin Names(trajectory_csv)
                       /\ \A r \in Range(mpnn_csv) :
                             SubSeq(r.name, 1, 5) # h.name
               /\ h.name \in relaxed
                    => (h.result.has_log /\ h.result.terminate = ""))
    /\ [][(pc = "terminate_check"
             /\ (~trajectory.has_log \/ trajectory.terminate = "None")
             /\ crashes' = crashes /\ pc' # pc)
            => /\ pc' = "check_accepted"
               /\ trajectory_n' = trajectory_n + 1
               /\ UNCHANGED <<persisted, calls>>]_vars

C24_Witness ==
    /\ pc = "check_accepted"
    /\ crashes = 0
    /\ trajectory_n = 3
    /\ Len(hallucinated) = 2
    /\ hallucinated[1].result.has_log
    /\ hallucinated[1].result.terminate = "None"
    /\ ~hallucinated[2].result.has_log

\* C25: a design name whose trajectory was relaxed keeps its artifact in
\* Trajectory/Relaxed, which no step deletes, so a later draw of the name
\* finds the trajectory existing and is skipped, also after the clean-up of
\* the unrelaxed artifact and after a restart; no design name has two
\* trajectory rows.
C25_DedupSurvivesCleanup ==
    /\ [](\A dn \in AllDesignNames :
            /\ dn \in relaxed
                 => <<"Trajectory/Relaxed", dn \o <<".pdb">>>> \in files
            /\ Cardinality({k \in DOMAIN trajectory_csv :
                               trajectory_csv[k].name = dn}) <= 1)
    /\ [][\A f \in files : f[1] = "Trajectory/Relaxed" => f \in files']_vars
    /\ [][(pc = "sample" /\ pc' = "dedup" /\ design_name' \in relaxed)
            => trajectory_exists']_vars
    /\ [][(pc = "dedup" /\ design_name \in relaxed /\ crashes' = crashes
             /\ pc' # pc)
            => (pc' = "check_accepted" /\ UNCHANGED <<persisted, calls>>)]_vars

C25_Witness ==
    /\ pc = "dedup"
    /\ crashes = 1
    /\ advanced_settings.remove_unrelaxed_trajectory
    /\ design_name \in relaxed
    /\ design_name \in Names(trajectory_csv)
    /\ <<"Trajectory", design_name \o <<".pdb">>>> \notin files
    /\ trajectory_exists

\* C26: with the early stop set or the redesign switched off no step
\* appends to the accepted/final table, and the loop, started with fewer
\* rows than the target, is left only with the budget check reporting true.
C26_NoQuotaProgressWithoutValidation ==
    /\ [][(stop_after_mpnn_generation \/ ~advanced_settings.enable_mpnn)
            => final_csv' = final_csv]_vars
    /\ []((stop_after_mpnn_generation \/ ~advanced_settings.enable_mpnn)
            => /\ Len(final_csv) < target_settings.number_of_final_designs
               /\ ~final_designs_reached
               /\ pc = "done" => max_trajectories_reached)

C26_Witness ==
    /\ pc = "done"
    /\ ~advanced_settings.enable_mpnn
    /\ ~stop_after_mpnn_generation
    /\ max_trajectories_reached
    /\ Len(trajectory_csv) = 2
    /\ final_csv = <<>>
====
